---- MODULE Spec2Model ----
(***************************************************************************)
(* The forest-fire cellular automaton of FF.py (ForestFireModel, von       *)
(* Neumann neighbourhood) and of FFGamePlots.py (ForestFireGame, Moore     *)
(* neighbourhood, with the 3x3 player, the counters and the overlay), and  *)
(* the frame loop of FFGamePlots.main.                                     *)
(*                                                                         *)
(* random.random() returns a float in [0, 1).  Probabilities are taken     *)
(* from {0, 1/2, 1}, written 0, 1, 2, and a draw is 0 (a number in         *)
(* [0, 1/2)) or 1 (a number in [1/2, 1)), so that "random.random() < p"    *)
(* is r < p: never true for p = 0, always true for p = 1.                  *)
(***************************************************************************)
EXTENDS Integers, FiniteSets, Sequences, TLC

VARIABLES
    cls,                 \* which class was constructed
    grid_size,           \* self.grid_size
    p_tree,              \* self.p_tree, in halves
    p_fire,              \* self.p_fire, in halves
    grid,                \* self.grid
    player_pos,          \* self.player_pos, <<x, y>>
    extinguished,        \* self.extinguished
    burned,              \* self.burned
    extinguish_overlay,  \* self.extinguish_overlay
    time_step,           \* self.time_step
    burned_history,          \* self.burned_history
    extinguished_history,    \* self.extinguished_history
    trees_history,           \* self.trees_history
    fire_percent_history,    \* self.fire_percent_history
    tree_percent_history,    \* self.tree_percent_history
    raised,              \* the exception the constructor raised, or "none"
    directions,          \* main: directions
    simulation_counter,  \* main: simulation_counter
    running,             \* main: running
    pc,                  \* main: position inside the frame
    op,                  \* history: the last operation that ran
    pre,                 \* history: self.grid when that operation started
    lit,                 \* history: the trees whose ignition draw succeeded in it
    drawn,               \* history: the numbers random.random() returned in it
    nsteps,              \* history: number of step() calls so far
    start                \* history: self.grid when the run started

vars == <<cls, grid_size, p_tree, p_fire, grid, player_pos, extinguished,
          burned, extinguish_overlay, time_step, burned_history,
          extinguished_history, trees_history, fire_percent_history,
          tree_percent_history, raised, directions, simulation_counter,
          running, pc, op, pre, lit, drawn, nsteps, start>>

histVars == <<burned_history, extinguished_history, trees_history,
              fire_percent_history, tree_percent_history>>
gameVars == <<player_pos, extinguished, burned, extinguish_overlay, time_step,
              histVars>>
mainVars == <<directions, simulation_counter, running, pc>>
cfgVars  == <<cls, grid_size, p_tree, p_fire, raised, start>>

----------------------------------------------------------------------------
\* Bounds of the model.

\* in one step(), at most MaxLow of the draws that decide something are
\* below 1/2
MaxLow == 1
\* at most MaxTicks step() calls in a run that calls step() directly
MaxTicks == 3
\* at most MaxFrames frames of the main loop
MaxFrames == 11
\* the grid sizes of the runs on an empty grid are 1..MaxSize
MaxSize == 6

\* Program constants.
EMPTY == 0
TREE == 1
FIRE == 2
\* the value move_player writes into the overlay
OVERLAY_SET == 2
\* the side of the player's footprint
FOOTPRINT == 3
simulation_step_interval == 5

Dirs == {"UP", "DOWN", "LEFT", "RIGHT"}

----------------------------------------------------------------------------
\* Grids.

Cells(n) == (0 .. n - 1) \X (0 .. n - 1)

\* np.zeros((grid_size, grid_size), dtype=int)
Zeros(n) == [c \in Cells(n) |-> 0]

\* np.sum(g == v)
Count(g, v) == Cardinality({c \in DOMAIN g : g[c] = v})

\* a wrong offset list: one diagonal among the four
VonNeumannWithDiagonal == {<<-1, 0>>, <<1, 0>>, <<0, -1>>, <<0, 1>>, <<1, 1>>}

VonNeumann == {<<-1, 0>>, <<1, 0>>, <<0, -1>>, <<0, 1>>}

\* a wrong offset list: the last diagonal is missing
MooreMissingCorner == {<<-1, -1>>, <<-1, 0>>, <<-1, 1>>,
                       <<0, -1>>,             <<0, 1>>,
                       <<1, -1>>,  <<1, 0>>}

Moore == {<<-1, -1>>, <<-1, 0>>, <<-1, 1>>,
          <<0, -1>>,             <<0, 1>>,
          <<1, -1>>,  <<1, 0>>,  <<1, 1>>}

\* the inner for-loop over the offsets, with its bounds test: some in-bounds
\* neighbour of c is on fire in g
FireNear(g, n, offsets, c) ==
    \E d \in offsets :
        LET nx == c[1] + d[1]
            ny == c[2] + d[2]
        IN  /\ 0 <= nx /\ nx < n /\ 0 <= ny /\ ny < n
            /\ g[<<nx, ny>>] = FIRE

\* a wrong rule: a burning cell next to another burning cell keeps burning
NewCellFireFed(g, n, offsets, pt, pf, r, c) ==
    IF g[c] = EMPTY THEN (IF r < pt THEN TREE ELSE EMPTY)
    ELSE IF g[c] = TREE THEN
        (IF r < pf THEN FIRE
         ELSE IF FireNear(g, n, offsets, c) THEN FIRE ELSE TREE)
    ELSE IF g[c] = FIRE THEN
        (IF FireNear(g, n, offsets, c) THEN FIRE ELSE EMPTY)
    ELSE g[c]

\* a wrong rule: a tree catches fire by its own draw only
NewCellNoSpread(g, n, offsets, pt, pf, r, c) ==
    IF g[c] = EMPTY THEN (IF r < pt THEN TREE ELSE EMPTY)
    ELSE IF g[c] = TREE THEN (IF r < pf THEN FIRE ELSE TREE)
    ELSE IF g[c] = FIRE THEN EMPTY
    ELSE g[c]

\* a wrong rule: a burnt cell is a tree again at once
NewCellBurnsToTree(g, n, offsets, pt, pf, r, c) ==
    IF g[c] = EMPTY THEN (IF r < pt THEN TREE ELSE EMPTY)
    ELSE IF g[c] = TREE THEN
        (IF r < pf THEN FIRE
         ELSE IF FireNear(g, n, offsets, c) THEN FIRE ELSE TREE)
    ELSE IF g[c] = FIRE THEN TREE
    ELSE g[c]

\* the body of the two for-loops of step() for one cell: r is the number
\* random.random() returns for it (no draw is made for a burning cell)
NewCell(g, n, offsets, pt, pf, r, c) ==
    IF g[c] = EMPTY THEN (IF r < pt THEN TREE ELSE EMPTY)
    ELSE IF g[c] = TREE THEN
        (IF r < pf THEN FIRE
         ELSE IF FireNear(g, n, offsets, c) THEN FIRE ELSE TREE)
    ELSE IF g[c] = FIRE THEN EMPTY
    ELSE g[c]

\* for x in range(n): for y in range(n): the cells in the order visited
RowMajor(n) == [i \in 1 .. n * n |-> <<(i - 1) \div n, (i - 1) % n>>]

\* a wrong loop body: the cell is computed from the grid being written
VisitInPlace(old, new, n, offsets, pt, pf, draw, c) ==
    [new EXCEPT ![c] = NewCell(new, n, offsets, pt, pf, draw[c], c)]

\* one pass of the loop body: cell c of new_grid is computed from self.grid
\* (old), which the loops never write
Visit(old, new, n, offsets, pt, pf, draw, c) ==
    [new EXCEPT ![c] = NewCell(old, n, offsets, pt, pf, draw[c], c)]

\* the loops from the k-th cell of the order on
RECURSIVE Scan(_, _, _, _, _, _, _, _, _)
Scan(old, new, order, k, n, offsets, pt, pf, draw) ==
    IF k > Len(order) THEN new
    ELSE Scan(old, Visit(old, new, n, offsets, pt, pf, draw, order[k]),
              order, k + 1, n, offsets, pt, pf, draw)

\* step(): new_grid = np.copy(self.grid), the loops, self.grid = new_grid
StepGrid(g, n, offsets, pt, pf, draw) ==
    Scan(g, g, RowMajor(n), 1, n, offsets, pt, pf, draw)

\* the trees whose "random.random() < self.p_fire" is true
Ignited(g, pf, draw) == {c \in DOMAIN g : g[c] = TREE /\ draw[c] < pf}

\* sets of at most k elements of S
RECURSIVE UpTo(_, _)
UpTo(S, k) ==
    IF k = 0 THEN {{}}
    ELSE LET smaller == UpTo(S, k - 1)
         IN  smaller \cup {T \cup {x} : T \in smaller, x \in S}

\* the draws of one step(): the cells of low draw 0, every other cell 1
DrawOf(n, low) == [c \in Cells(n) |-> IF c \in low THEN 0 ELSE 1]

\* the cells whose draw decides something: the comparison with p_tree (on an
\* empty cell) or p_fire (on a tree) is neither always false nor always true
Deciding(g, pt, pf) ==
    {c \in DOMAIN g : \/ g[c] = EMPTY /\ 0 < pt /\ pt < 2
                      \/ g[c] = TREE /\ 0 < pf /\ pf < 2}

\* the draws step() may see on grid g; a draw that decides nothing is left
\* at 1
Draws(g, n, pt, pf) ==
    {DrawOf(n, low) : low \in UpTo(Deciding(g, pt, pf), MaxLow)}

----------------------------------------------------------------------------
\* ForestFireModel.step

ModelStepTo(draw) ==
    /\ grid' = StepGrid(grid, grid_size, VonNeumann, p_tree, p_fire, draw)
    /\ pre' = grid
    /\ lit' = Ignited(grid, p_fire, draw)
    /\ drawn' = draw
    /\ op' = "step"
    /\ nsteps' = nsteps + 1
    /\ UNCHANGED <<cfgVars, gameVars, mainVars>>

ModelStep ==
    /\ cls = "ForestFireModel"
    /\ raised = "none"
    /\ nsteps < MaxTicks
    /\ \E draw \in Draws(grid, grid_size, p_tree, p_fire) : ModelStepTo(draw)

----------------------------------------------------------------------------
\* ForestFireGame.step

\* a wrong decay: the mask is forgotten and every counter falls by one
DecayUnmasked(o) == [c \in DOMAIN o |-> o[c] - 1]

\* self.extinguish_overlay[self.extinguish_overlay > 0] -= 1
Decay(o) == [c \in DOMAIN o |-> IF o[c] > 0 THEN o[c] - 1 ELSE o[c]]

\* a wrong count: one per step() in which something burnt
BurnedOncePerStep(b, g) == IF Count(g, FIRE) > 0 THEN b + 1 ELSE b

\* a wrong count: the fires are subtracted
BurnedLessFires(b, g) == b - Count(g, FIRE)

\* self.burned after the loops: += 1 for every cell of self.grid on fire
BurnedAfter(b, g) == b + Count(g, FIRE)

\* (np.sum(g == v) / total_cells) * 100, kept exact as the pair
\* <<numerator, denominator>> of the quotient
Percent(g, v, n) == <<Count(g, v) * 100, n * n>>

\* a wrong append: the sample is put in front of the earlier ones
SampledInFront(h, v) == <<v>> \o h

\* h.append(v)
Sampled(h, v) == Append(h, v)

GameStepTo(draw) ==
    /\ grid' = StepGrid(grid, grid_size, Moore, p_tree, p_fire, draw)
    /\ burned' = BurnedAfter(burned, grid)
    /\ extinguish_overlay' = Decay(extinguish_overlay)
    /\ time_step' = time_step + 1
    /\ burned_history' = Sampled(burned_history, burned')
    /\ extinguished_history' = Sampled(extinguished_history, extinguished)
    /\ trees_history' = Sampled(trees_history, Count(grid', TREE))
    /\ fire_percent_history' =
           Sampled(fire_percent_history, Percent(grid', FIRE, grid_size))
    /\ tree_percent_history' =
           Sampled(tree_percent_history, Percent(grid', TREE, grid_size))
    /\ pre' = grid
    /\ lit' = Ignited(grid, p_fire, draw)
    /\ drawn' = draw
    /\ op' = "step"
    /\ nsteps' = nsteps + 1
    /\ UNCHANGED <<cfgVars, player_pos, extinguished>>

GameStep ==
    /\ cls = "ForestFireGame"
    /\ raised = "none"
    /\ pc = "api"
    /\ nsteps < MaxTicks
    /\ \E draw \in Draws(grid, grid_size, p_tree, p_fire) :
           GameStepTo(draw) /\ UNCHANGED mainVars

----------------------------------------------------------------------------
\* ForestFireGame.move_player

\* the four ifs, in order, each reading the x, y the earlier ones left
MoveX(x, n, dir) ==
    LET x1 == IF "UP" \in dir /\ x > 0 THEN x - 1 ELSE x
    IN  IF "DOWN" \in dir /\ x1 < n - FOOTPRINT THEN x1 + 1 ELSE x1

MoveY(y, n, dir) ==
    LET y1 == IF "LEFT" \in dir /\ y > 0 THEN y - 1 ELSE y
    IN  IF "RIGHT" \in dir /\ y1 < n - FOOTPRINT THEN y1 + 1 ELSE y1

\* a wrong footprint: the 3x3 block centred on the position
FootprintCentred(pos, n) ==
    {c \in Cells(n) : /\ pos[1] - 1 <= c[1] /\ c[1] <= pos[1] + 1
                      /\ pos[2] - 1 <= c[2] /\ c[2] <= pos[2] + 1}

\* the cells the two range(.., .. + 3) loops visit that pass the bounds test
Footprint(pos, n) ==
    {c \in Cells(n) : /\ pos[1] <= c[1] /\ c[1] < pos[1] + FOOTPRINT
                      /\ pos[2] <= c[2] /\ c[2] < pos[2] + FOOTPRINT}

\* a wrong loop body: nothing is put out
DousedNothing(g, pos, n) == {}

\* a wrong loop body: whatever is not empty is put out, trees included
DousedWithTrees(g, pos, n) == {c \in Footprint(pos, n) : g[c] # EMPTY}

\* the cells the loops put out
Doused(g, pos, n) == {c \in Footprint(pos, n) : g[c] = FIRE}

\* a wrong loop body: the cells are counted and marked but left burning
PutOutLeavesFire(g, out) == g

\* self.grid[i, j] = 0 for the cells put out
PutOut(g, out) == [c \in DOMAIN g |-> IF c \in out THEN EMPTY ELSE g[c]]

MovePlayerTo(dir) ==
    LET pos == <<MoveX(player_pos[1], grid_size, dir),
                 MoveY(player_pos[2], grid_size, dir)>>
        out == Doused(grid, pos, grid_size)
    IN  /\ player_pos' = pos
        /\ grid' = PutOut(grid, out)
        /\ extinguished' = extinguished + Cardinality(out)
        /\ extinguish_overlay' =
               [c \in DOMAIN grid |->
                   IF c \in out THEN OVERLAY_SET ELSE extinguish_overlay[c]]
        /\ pre' = grid
        /\ lit' = {}
        /\ drawn' = DrawOf(grid_size, {})
        /\ op' = "move"
        /\ UNCHANGED <<cfgVars, burned, time_step, histVars, nsteps>>

MovePlayer ==
    /\ cls = "ForestFireGame"
    /\ raised = "none"
    /\ pc = "api"
    /\ \E dir \in SUBSET Dirs : MovePlayerTo(dir) /\ UNCHANGED mainVars

----------------------------------------------------------------------------
\* Construction.

\* ForestFireModel.__init__ / ForestFireGame.__init__ and the locals of main
\* before its loop; g is self.grid: np.zeros, unless the caller then assigns
\* a grid of its own
Constructed(c, n, pt, pf, g, at) ==
    /\ cls = c
    /\ grid_size = n
    /\ p_tree = pt
    /\ p_fire = pf
    /\ grid = g
    /\ player_pos = <<n \div 2, n \div 2>>
    /\ extinguished = 0
    /\ burned = 0
    /\ extinguish_overlay = Zeros(n)
    /\ time_step = 0
    /\ burned_history = <<>>
    /\ extinguished_history = <<>>
    /\ trees_history = <<>>
    /\ fire_percent_history = <<>>
    /\ tree_percent_history = <<>>
    /\ raised = "none"
    /\ directions = {}
    /\ simulation_counter = 0
    /\ running = TRUE
    /\ pc = at
    /\ op = "init"
    /\ pre = g
    /\ lit = {}
    /\ drawn = DrawOf(n, {})
    /\ nsteps = 0
    /\ start = g

Probabilities == 0 .. 2

----------------------------------------------------------------------------
\* The stochastic runs: ForestFireModel on a 3x3 grid and ForestFireGame on a
\* 2x2 grid, any probabilities, step() and move_player() called in any order.

Init ==
    \E pt, pf \in Probabilities :
        \/ Constructed("ForestFireModel", 3, pt, pf, Zeros(3), "api")
        \/ Constructed("ForestFireGame", 2, pt, pf, Zeros(2), "api")

Next == ModelStep \/ GameStep \/ MovePlayer

Spec == Init /\ [][Next]_vars

----------------------------------------------------------------------------
\* The runs on an empty grid: ForestFireGame of every size 1..MaxSize with
\* p_tree = 0, so that the grid stays empty and only the player moves.

InitSizes ==
    \E n \in 1 .. MaxSize, pf \in Probabilities :
        Constructed("ForestFireGame", n, 0, pf, Zeros(n), "api")

\* ForestFireGame alone
NextGame == GameStep \/ MovePlayer

SpecSizes == InitSizes /\ [][NextGame]_vars

----------------------------------------------------------------------------
\* The runs on a burning grid: ForestFireGame on a 4x4 grid with both
\* probabilities 1, so that every empty cell grows a tree and every tree
\* catches fire at each step(), and the player moves through the fire.  The
\* player starts at <<2, 2>>, where the bounds test cuts its footprint to
\* 2x2, and reaches the anchors 0 and 1, where the footprint is whole.

InitBlaze == Constructed("ForestFireGame", 4, 2, 2, Zeros(4), "api")

SpecBlaze == InitBlaze /\ [][NextGame]_vars

----------------------------------------------------------------------------
\* The scenario runs: a 5x5 grid of either class with p_tree = p_fire = 0,
\* whose grid the caller has set: the centre on fire, each of the 8 cells
\* around it a tree or empty, the 16 cells of the border filled by one of
\* four patterns.

Centre == <<2, 2>>

Ring == {c \in Cells(5) : c # Centre /\ c[1] \in 1 .. 3 /\ c[2] \in 1 .. 3}

Border(kind, c) ==
    CASE kind = "empty" -> EMPTY
      [] kind = "trees" -> TREE
      [] kind = "even" -> IF (c[1] + c[2]) % 2 = 0 THEN TREE ELSE EMPTY
      [] kind = "odd" -> IF (c[1] + c[2]) % 2 = 1 THEN TREE ELSE EMPTY

ScenarioGrid(inner, kind) ==
    [c \in Cells(5) |->
        IF c = Centre THEN FIRE
        ELSE IF c \in Ring THEN inner[c]
        ELSE Border(kind, c)]

InitScenario ==
    \E c \in {"ForestFireModel", "ForestFireGame"},
       inner \in [Ring -> {EMPTY, TREE}],
       kind \in {"empty", "trees", "even", "odd"} :
        Constructed(c, 5, 0, 0, ScenarioGrid(inner, kind), "api")

\* the scenarios call step() only
NextScenario == ModelStep \/ GameStep

SpecScenario == InitScenario /\ [][NextScenario]_vars

----------------------------------------------------------------------------
\* main: the frame loop.  One frame is: the event loop, then move_player if
\* a direction is held, then step() if the counter is a multiple of the
\* interval, then the counter's increment (the drawing changes no state).

\* for event in pygame.event.get(): any number of KEYDOWN and KEYUP events
\* leave any set of held directions; QUIT clears running, and the frame
\* still runs to its end
FrameEvents ==
    /\ pc = "events"
    /\ simulation_counter < MaxFrames
    /\ \E held \in SUBSET Dirs, quit \in BOOLEAN :
        /\ directions' = held
        /\ running' = ~quit
    /\ pc' = "move"
    /\ UNCHANGED <<cfgVars, gameVars, grid, simulation_counter,
                   op, pre, lit, drawn, nsteps>>

\* if directions: game.move_player(directions)
FrameMove ==
    /\ pc = "move"
    /\ directions # {}
    /\ MovePlayerTo(directions)
    /\ pc' = "tick"
    /\ UNCHANGED <<directions, simulation_counter, running>>

FrameNoMove ==
    /\ pc = "move"
    /\ directions = {}
    /\ pc' = "tick"
    /\ UNCHANGED <<cfgVars, gameVars, grid, directions, simulation_counter,
                   running, op, pre, lit, drawn, nsteps>>

\* while running:
AfterFrame == IF running THEN "events" ELSE "done"

\* a wrong counter: set back to zero after a step()
FrameStepAndReset ==
    /\ pc = "tick"
    /\ simulation_counter % simulation_step_interval = 0
    /\ \E draw \in Draws(grid, grid_size, p_tree, p_fire) : GameStepTo(draw)
    /\ simulation_counter' = 0
    /\ pc' = AfterFrame
    /\ UNCHANGED <<directions, running>>

\* if simulation_counter % simulation_step_interval == 0: game.step()
\* simulation_counter += 1
FrameStep ==
    /\ pc = "tick"
    /\ simulation_counter % simulation_step_interval = 0
    /\ \E draw \in Draws(grid, grid_size, p_tree, p_fire) : GameStepTo(draw)
    /\ simulation_counter' = simulation_counter + 1
    /\ pc' = AfterFrame
    /\ UNCHANGED <<directions, running>>

FrameNoStep ==
    /\ pc = "tick"
    /\ simulation_counter % simulation_step_interval # 0
    /\ simulation_counter' = simulation_counter + 1
    /\ pc' = AfterFrame
    /\ UNCHANGED <<cfgVars, gameVars, grid, directions, running,
                   op, pre, lit, drawn, nsteps>>

\* game = ForestFireGame(GRID_SIZE, p_tree=0.05, p_fire=0.0001), on a 2x2
\* grid: both probabilities strictly between 0 and 1
InitMain == Constructed("ForestFireGame", 2, 1, 1, Zeros(2), "events")

NextMain ==
    FrameEvents \/ FrameMove \/ FrameNoMove \/ FrameStep \/ FrameNoStep

SpecMain == InitMain /\ [][NextMain]_vars

----------------------------------------------------------------------------
\* Construction with any arguments: the grid sizes and probabilities a caller
\* may pass, those outside their meaningful ranges included.  A probability
\* below 0 is one random.random() never falls under, one above 1 is one it
\* always falls under.

ConfigSizes == -1 .. 2
ConfigProbabilities == -1 .. 3

\* np.zeros((n, n)): numpy raises ValueError for a negative dimension and
\* returns an empty array for a zero one
ZerosRaises(n) == IF n < 0 THEN "ValueError" ELSE "none"

\* __init__ left by an exception e: the caller gets no instance, and no method
\* can be called
ConstructionFailed(c, n, pt, pf, e) ==
    /\ cls = c
    /\ grid_size = n
    /\ p_tree = pt
    /\ p_fire = pf
    /\ grid = <<>>
    /\ player_pos = <<0, 0>>
    /\ extinguished = 0
    /\ burned = 0
    /\ extinguish_overlay = <<>>
    /\ time_step = 0
    /\ burned_history = <<>>
    /\ extinguished_history = <<>>
    /\ trees_history = <<>>
    /\ fire_percent_history = <<>>
    /\ tree_percent_history = <<>>
    /\ raised = e
    /\ directions = {}
    /\ simulation_counter = 0
    /\ running = TRUE
    /\ pc = "api"
    /\ op = "init"
    /\ pre = <<>>
    /\ lit = {}
    /\ drawn = <<>>
    /\ nsteps = 0
    /\ start = <<>>

\* __init__ of either class: the arguments are stored as given, with no test,
\* and the only statement that can fail is np.zeros
InitConfig ==
    \E c \in {"ForestFireModel", "ForestFireGame"}, n \in ConfigSizes,
       pt, pf \in ConfigProbabilities :
        IF ZerosRaises(n) = "none"
        THEN Constructed(c, n, pt, pf, Zeros(n), "api")
        ELSE ConstructionFailed(c, n, pt, pf, ZerosRaises(n))

SpecConfig == InitConfig /\ [][Next]_vars

----------------------------------------------------------------------------
\* Burning without regrowth: both probabilities 0, the caller having assigned
\* any grid of its own to a ForestFireModel on 3x3 or a ForestFireGame on 2x2.
\* step() is called again and again for as long as a cell is on fire, and up
\* to MaxTicks times in all when none is; move_player() at any moment.

AnyGrid(n) == [Cells(n) -> {EMPTY, TREE, FIRE}]

InitDieOut ==
    \/ \E g \in AnyGrid(3) :
           Constructed("ForestFireModel", 3, 0, 0, g, "api")
    \/ \E g \in AnyGrid(2) :
           Constructed("ForestFireGame", 2, 0, 0, g, "api")

\* the caller goes on calling step()
CallsOn == Count(grid, FIRE) > 0 \/ nsteps < MaxTicks

ModelStepOn ==
    /\ cls = "ForestFireModel"
    /\ raised = "none"
    /\ CallsOn
    /\ \E draw \in Draws(grid, grid_size, p_tree, p_fire) : ModelStepTo(draw)

GameStepOn ==
    /\ cls = "ForestFireGame"
    /\ raised = "none"
    /\ pc = "api"
    /\ CallsOn
    /\ \E draw \in Draws(grid, grid_size, p_tree, p_fire) :
           GameStepTo(draw) /\ UNCHANGED mainVars

NextDieOut == ModelStepOn \/ GameStepOn \/ MovePlayer

\* the calls of step() are repeated: one is made whenever the caller goes on
SpecDieOut ==
    /\ InitDieOut
    /\ [][NextDieOut]_vars
    /\ WF_vars(ModelStepOn \/ GameStepOn)

----------------------------------------------------------------------------
\* The vocabulary of the properties, stated without the operators above.

Abs(k) == IF k < 0 THEN -k ELSE k

\* b is one of the 4 orthogonal neighbours of a
Orthogonal(a, b) == Abs(a[1] - b[1]) + Abs(a[2] - b[2]) = 1

\* b is one of the 4 diagonal neighbours of a
Diagonal(a, b) == Abs(a[1] - b[1]) = 1 /\ Abs(a[2] - b[2]) = 1

\* b is a neighbour of a in the constructed class: 4-connected in
\* ForestFireModel, 8-connected in ForestFireGame
Neighbour(a, b) ==
    \/ Orthogonal(a, b)
    \/ cls = "ForestFireGame" /\ Diagonal(a, b)

\* some cell of grid g next to c is on fire
NextToFire(g, c) == \E b \in DOMAIN g : Neighbour(c, b) /\ g[b] = FIRE

Stepped == op = "step"
Moved == op = "move"

----------------------------------------------------------------------------
\* C1: fire lasts exactly one tick.  After a step() of either class, every
\* cell that was on fire when the step() started is empty, whatever its
\* neighbours and the draws were.
C1_FireLastsOneTick ==
    Stepped => \A c \in DOMAIN pre : pre[c] = FIRE => grid[c] = EMPTY

\* a ForestFireModel step() has burnt out a cell that had a burning neighbour
C1_Witness ==
    /\ Stepped
    /\ cls = "ForestFireModel"
    /\ \E c \in DOMAIN pre :
        pre[c] = FIRE /\ NextToFire(pre, c) /\ grid[c] = EMPTY

\* C2: neighbour-gated ignition.  After a step(), a cell is on fire only if
\* it was a tree when the step() started and either won its ignition draw or
\* had a neighbour (of the class's neighbourhood) on fire then; and a tree
\* with no burning neighbour that lost its draw is still a tree.
C2_NeighbourGated ==
    Stepped =>
        \A c \in DOMAIN pre :
            /\ grid[c] = FIRE =>
                   pre[c] = TREE /\ (c \in lit \/ NextToFire(pre, c))
            /\ (pre[c] = TREE /\ c \notin lit /\ ~NextToFire(pre, c)) =>
                   grid[c] = TREE

\* a step() in which one tree was lit by its neighbour and not by its draw,
\* and another tree, touching the fire only diagonally, stayed a tree
C2_Witness ==
    /\ Stepped
    /\ \E c, d \in DOMAIN pre :
        /\ pre[c] = TREE /\ c \notin lit /\ grid[c] = FIRE
        /\ pre[d] = TREE /\ grid[d] = TREE
        /\ \E f \in DOMAIN pre : pre[f] = FIRE /\ Diagonal(d, f)

\* C3: one-tick spread without chance.  With p_tree = p_fire = 0 on a 5x5
\* grid whose centre is on fire and whose other cells are trees or empty,
\* after one step() the centre is empty, every tree next to the centre (the
\* 4 orthogonal cells in ForestFireModel, all 8 in ForestFireGame) is on
\* fire, and every other cell is as it was.
CentreAlone(g) ==
    /\ g[Centre] = FIRE
    /\ \A c \in DOMAIN g : c # Centre => g[c] \in {EMPTY, TREE}

C3_OneTickSpread ==
    (/\ Stepped
     /\ grid_size = 5 /\ p_tree = 0 /\ p_fire = 0
     /\ CentreAlone(pre)) =>
        \A c \in DOMAIN pre :
            grid[c] = IF c = Centre THEN EMPTY
                      ELSE IF pre[c] = TREE /\ Neighbour(Centre, c) THEN FIRE
                      ELSE pre[c]

\* a ForestFireGame step() from such a grid lit a diagonal neighbour of the
\* centre, left an empty neighbour empty and left a tree of the border alone
C3_Witness ==
    /\ Stepped
    /\ cls = "ForestFireGame"
    /\ CentreAlone(pre)
    /\ \E a, b, d \in DOMAIN pre :
        /\ Diagonal(Centre, a) /\ pre[a] = TREE /\ grid[a] = FIRE
        /\ Orthogonal(Centre, b) /\ pre[b] = EMPTY /\ grid[b] = EMPTY
        /\ ~Neighbour(Centre, d) /\ pre[d] = TREE /\ grid[d] = TREE

\* C4, as stated: in ForestFireModel with p_tree = p_fire = 0 on such a 5x5
\* grid, after the second step() the 4 orthogonal neighbours of the centre
\* are empty and the 4 diagonal neighbours of the centre are in the state
\* they had before the first step().
C4_DiagonalsUnaffected ==
    (cls = "ForestFireModel" /\ nsteps = 2 /\ CentreAlone(start)) =>
        \A c \in DOMAIN grid :
            /\ Orthogonal(Centre, c) => grid[c] = EMPTY
            /\ Diagonal(Centre, c) => grid[c] = start[c]

\* C4, amended: after the second step() the 4 orthogonal neighbours of the
\* centre are empty; a diagonal neighbour of the centre is on fire if it was
\* a tree and one of the orthogonal neighbours of the centre next to it was a
\* tree, and is otherwise in the state it had before the first step().
C4_DiagonalsCatchFromOrthogonals ==
    (cls = "ForestFireModel" /\ nsteps = 2 /\ CentreAlone(start)) =>
        \A c \in DOMAIN grid :
            /\ Orthogonal(Centre, c) => grid[c] = EMPTY
            /\ Diagonal(Centre, c) =>
                   grid[c] =
                       IF /\ start[c] = TREE
                          /\ \E b \in DOMAIN grid :
                                /\ Orthogonal(Centre, b) /\ Orthogonal(c, b)
                                /\ start[b] = TREE
                       THEN FIRE
                       ELSE start[c]

\* after the second step(), one diagonal neighbour of the centre burns, one
\* is still the tree it was and one orthogonal neighbour has burnt out
C4_Witness ==
    /\ cls = "ForestFireModel" /\ nsteps = 2 /\ CentreAlone(start)
    /\ \E a, b, c \in DOMAIN grid :
        /\ Diagonal(Centre, a) /\ start[a] = TREE /\ grid[a] = FIRE
        /\ Diagonal(Centre, b) /\ start[b] = TREE /\ grid[b] = TREE
        /\ Orthogonal(Centre, c) /\ start[c] = TREE /\ grid[c] = EMPTY

\* C5: the counters are mutually exclusive.  In ForestFireGame, every call
\* raises burned + extinguished by the number of cells that leave FIRE in
\* it, and raises only burned (step) or only extinguished (move_player).
LeavingFire == {c \in DOMAIN grid : grid[c] = FIRE /\ grid'[c] # FIRE}

C5_ExactlyOneCounterPerFire ==
    [][cls = "ForestFireGame" =>
        /\ (burned' + extinguished') - (burned + extinguished)
               = Cardinality(LeavingFire)
        /\ op' = "step" => extinguished' = extinguished
        /\ op' = "move" => burned' = burned]_vars

\* both counters have counted, and together more than one fire
C5_Witness ==
    /\ cls = "ForestFireGame"
    /\ burned >= 1
    /\ extinguished >= 1
    /\ burned + extinguished >= 3

\* the cells of the grid in rows [r, r+2] and columns [c, c+2] of anchor pos
Under(pos) ==
    {c \in DOMAIN grid : /\ c[1] \in pos[1] .. pos[1] + 2
                         /\ c[2] \in pos[2] .. pos[2] + 2}

\* C6, as stated: for every grid size, in every state reached from
\* construction by move_player calls, the anchor <<r, c>> of ForestFireGame
\* satisfies 0 <= r <= size - 3 and 0 <= c <= size - 3.
C6_AnchorClamped ==
    cls = "ForestFireGame" =>
        /\ 0 <= player_pos[1] /\ player_pos[1] <= grid_size - 3
        /\ 0 <= player_pos[2] /\ player_pos[2] <= grid_size - 3

\* C7: extinguish on move.  When move_player returns, no cell under the
\* agent's new footprint is on fire; each one that was on fire is empty with
\* its overlay counter at 2; extinguished has grown by their number; and a
\* call with no direction leaves the position where it was.
C7_ExtinguishOnMove ==
    [][/\ op' = "move" =>
            LET put == {c \in Under(player_pos') : grid[c] = FIRE}
            IN  /\ \A c \in Under(player_pos') : grid'[c] # FIRE
                /\ \A c \in put :
                       grid'[c] = EMPTY /\ extinguish_overlay'[c] = 2
                /\ extinguished' = extinguished + Cardinality(put)
       /\ MovePlayerTo({}) => player_pos' = player_pos]_vars

\* a move_player call has put out its whole footprint while fire burns on
\* outside it, and an earlier call had put out cells too
C7_Witness ==
    /\ Moved
    /\ Cardinality(Under(player_pos)) = 9
    /\ \A c \in Under(player_pos) : grid[c] = EMPTY
    /\ \E c \in Under(player_pos) :
           pre[c] = FIRE /\ extinguish_overlay[c] = 2
    /\ \E c \in DOMAIN grid : grid[c] = FIRE
    /\ extinguished > 9

\* main is about to test whether this frame runs step(), and it does
AboutToStep ==
    pc = "tick" /\ simulation_counter % simulation_step_interval = 0

\* C8, as stated: move_player runs in every frame, so that whenever step()
\* runs in a frame no cell under the agent's footprint is on fire.
C8_NoFireUnderAgentAtStep ==
    AboutToStep => \A c \in Under(player_pos) : grid[c] # FIRE

\* C8, amended: move_player runs in the frames in which a direction is held,
\* and whenever step() runs in such a frame no cell under the agent's
\* footprint is on fire.
C8_NoFireUnderAgentWhenHeld ==
    (AboutToStep /\ directions # {}) =>
        \A c \in Under(player_pos) : grid[c] # FIRE

\* in a frame that runs step(), with a direction held, move_player has just
\* put out a fire under the agent
C8_Witness ==
    /\ AboutToStep
    /\ directions # {}
    /\ Moved
    /\ \E c \in Under(player_pos) : pre[c] = FIRE /\ grid[c] = EMPTY

\* C9, as stated: no tick during the first N - 1 frames, and the counter of
\* frames never exceeds N (it is reset at each tick).
C9_CounterResets ==
    /\ simulation_counter <= simulation_step_interval
    /\ simulation_counter < simulation_step_interval => time_step = 0

\* C9, amended: the counter grows by one in every frame and is never reset,
\* and step() runs in a frame exactly when the counter is a multiple of N
\* when the frame tests it: in the first frame and every N frames after.
C9_StepWhenMultiple ==
    [][/\ simulation_counter' =
              simulation_counter + (IF pc = "tick" THEN 1 ELSE 0)
       /\ time_step' = time_step + (IF AboutToStep THEN 1 ELSE 0)]_vars

\* the third tick has run, in the eleventh frame
C9_Witness ==
    /\ simulation_counter = 2 * simulation_step_interval + 1
    /\ time_step = 3
    /\ Stepped

\* C10, as stated: the overlay counters decay in every frame, whether or not
\* the frame runs step(): across the step test and the counter's increment
\* every positive counter falls by one and every zero counter stays zero.
C10_OverlayDecaysEveryFrame ==
    [][pc = "tick" =>
        \A c \in DOMAIN extinguish_overlay :
            extinguish_overlay'[c] =
                IF extinguish_overlay[c] > 0
                THEN extinguish_overlay[c] - 1
                ELSE 0]_vars

\* C11: overlay decay per tick.  Every extinguish_overlay entry is in 0..2
\* before and after every operation; a step() lowers every positive entry by
\* exactly one and leaves every zero entry at zero; and an entry rises only
\* across a move_player that puts out a fire at that very cell.
C11_OverlayDecay ==
    [][cls = "ForestFireGame" =>
        \A c \in DOMAIN extinguish_overlay :
            /\ extinguish_overlay[c] \in 0 .. OVERLAY_SET
            /\ extinguish_overlay'[c] \in 0 .. OVERLAY_SET
            /\ op' = "step" =>
                   extinguish_overlay'[c] =
                       IF extinguish_overlay[c] > 0
                       THEN extinguish_overlay[c] - 1
                       ELSE 0
            /\ extinguish_overlay'[c] > extinguish_overlay[c] =>
                   /\ op' = "move"
                   /\ grid[c] = FIRE
                   /\ grid'[c] = EMPTY]_vars

\* a step() has lowered the counter of a doused cell from 2 to 1 and left the
\* zero counter of another cell alone
C11_Witness ==
    /\ cls = "ForestFireGame"
    /\ Stepped
    /\ extinguished >= 1
    /\ \E c, d \in DOMAIN extinguish_overlay :
           /\ extinguish_overlay[c] = 1
           /\ extinguish_overlay[d] = 0

\* C12, as stated: construction rejects an invalid configuration.  A
\* non-positive grid size, or a p_tree or p_fire outside [0, 1], makes the
\* constructor fail with InvalidConfiguration, so that no instance exists.
C12_InvalidConfigurationRejected ==
    (\/ grid_size <= 0
     \/ p_tree \notin Probabilities
     \/ p_fire \notin Probabilities)
        => raised = "InvalidConfiguration"

\* C13: counter monotonicity.  Across every step() and every move_player()
\* neither burned nor extinguished decreases; step() leaves extinguished as it
\* was and move_player() leaves burned as it was.
C13_CountersMonotone ==
    [][cls = "ForestFireGame" =>
        /\ burned' >= burned
        /\ extinguished' >= extinguished
        /\ op' = "step" => extinguished' = extinguished
        /\ op' = "move" => burned' = burned]_vars

\* a move_player has put out a fire after a step() counted other fires as
\* burnt: both counters have risen
C13_Witness ==
    /\ cls = "ForestFireGame"
    /\ Moved
    /\ burned >= 1
    /\ extinguished >= 1
    /\ \E c \in DOMAIN extinguish_overlay : extinguish_overlay[c] = OVERLAY_SET

\* the number of TREE cells of a grid
TreesIn(g) == Cardinality({c \in DOMAIN g : g[c] = TREE})

\* sequence h2 is sequence h1 with the one sample v after it
OneMore(h2, h1, v) ==
    /\ Len(h2) = Len(h1) + 1
    /\ \A i \in 1 .. Len(h1) : h2[i] = h1[i]
    /\ h2[Len(h2)] = v

\* the five history sequences
Histories ==
    <<burned_history, extinguished_history, trees_history,
      fire_percent_history, tree_percent_history>>

\* C14: statistics stay consistent with the grid.  Before and after every
\* operation each of the five history sequences has length time_step; a
\* step() appends exactly one sample to each and leaves the earlier samples as
\* they were, the new trees sample being the number of TREE cells of the grid
\* after the tick and the new burned and extinguished samples the counters
\* after the tick; move_player changes no history.
C14_HistoriesConsistent ==
    [][cls = "ForestFireGame" =>
        /\ \A i \in 1 .. 5 : Len(Histories[i]) = time_step
        /\ \A i \in 1 .. 5 : Len(Histories'[i]) = time_step'
        /\ op' = "step" =>
               /\ OneMore(burned_history', burned_history, burned')
               /\ OneMore(extinguished_history', extinguished_history,
                          extinguished')
               /\ OneMore(trees_history', trees_history, TreesIn(grid'))
               /\ \E v \in {fire_percent_history'[time_step']} :
                      OneMore(fire_percent_history', fire_percent_history, v)
               /\ \E v \in {tree_percent_history'[time_step']} :
                      OneMore(tree_percent_history', tree_percent_history, v)
        /\ op' = "move" => Histories' = Histories]_vars

\* three samples have been taken, the last of them after fires burnt out and
\* after a fire was put out, with a tree count unlike the one before
C14_Witness ==
    /\ cls = "ForestFireGame"
    /\ Stepped
    /\ time_step = 3
    /\ Len(trees_history) = 3
    /\ trees_history[3] # trees_history[2]
    /\ burned_history[3] > burned_history[2]
    /\ extinguished_history[3] > extinguished_history[1]

\* the synchronous rule: the state of cell c after a tick, from the grid g
\* before the tick and the numbers d drawn for the cells
SynchronousRule(g, d, c) ==
    CASE g[c] = FIRE -> EMPTY
      [] g[c] = EMPTY -> IF d[c] < p_tree THEN TREE ELSE EMPTY
      [] g[c] = TREE ->
            IF d[c] < p_fire \/ NextToFire(g, c) THEN FIRE ELSE TREE

\* orders in which the cells of an n x n grid can be visited: by rows, by
\* columns, and both backwards
ColumnMajor(n) == [i \in 1 .. n * n |-> <<(i - 1) % n, (i - 1) \div n>>]
Backwards(s) == [i \in 1 .. Len(s) |-> s[Len(s) + 1 - i]]
VisitOrders(n) ==
    {RowMajor(n), ColumnMajor(n), Backwards(RowMajor(n)),
     Backwards(ColumnMajor(n))}

\* the neighbourhood of the constructed class
OffsetsOfClass == IF cls = "ForestFireGame" THEN Moore ELSE VonNeumann

\* C16: double-buffered update.  After a step(), with the numbers drawn for
\* the cells fixed, the grid is the synchronous rule applied cell by cell to
\* the grid before the tick, and the loops of step() give that same grid in
\* every order of visiting the cells; a tree that lost its draw and had no
\* neighbour on fire before the tick is still a tree, even next to a cell set
\* on fire during this tick.
C16_DoubleBuffered ==
    Stepped =>
        /\ grid = [c \in DOMAIN pre |-> SynchronousRule(pre, drawn, c)]
        /\ \A order \in VisitOrders(grid_size) :
               Scan(pre, pre, order, 1, grid_size, OffsetsOfClass,
                    p_tree, p_fire, drawn) = grid
        /\ \A c \in DOMAIN pre :
               (/\ pre[c] = TREE
                /\ ~ (drawn[c] < p_fire)
                /\ \A b \in DOMAIN pre :
                       Neighbour(c, b) => pre[b] # FIRE)
                   => grid[c] = TREE

\* in one step() a fire went out while a tree next to it caught fire from it,
\* and elsewhere a tree was set on fire by its draw next to a tree that stayed
\* a tree
C16_Witness ==
    /\ Stepped
    /\ \E a, b \in DOMAIN pre :
           /\ Neighbour(a, b)
           /\ pre[a] = FIRE /\ grid[a] = EMPTY
           /\ pre[b] = TREE /\ grid[b] = FIRE
    /\ \E c, d \in DOMAIN pre :
           /\ Neighbour(c, d)
           /\ pre[c] = TREE /\ c \in lit /\ grid[c] = FIRE
           /\ pre[d] = TREE /\ grid[d] = TREE

\* C17: cell life cycle.  Before and after every operation every cell is
\* EMPTY, TREE or FIRE; across a step() a cell keeps its state, grows from
\* EMPTY to TREE, catches fire from TREE to FIRE or burns out from FIRE to
\* EMPTY; across a move_player() it keeps its state or goes from FIRE to
\* EMPTY.  No operation takes a cell from EMPTY to FIRE, from TREE to EMPTY
\* or from FIRE to TREE.
C17_LifeCycle ==
    [][\A c \in DOMAIN grid :
        /\ grid[c] \in {EMPTY, TREE, FIRE}
        /\ grid'[c] \in {EMPTY, TREE, FIRE}
        /\ \/ grid'[c] = grid[c]
           \/ grid[c] = EMPTY /\ grid'[c] = TREE /\ op' = "step"
           \/ grid[c] = TREE /\ grid'[c] = FIRE /\ op' = "step"
           \/ grid[c] = FIRE /\ grid'[c] = EMPTY]_vars

\* one step() of the game made all three transitions and left a fourth cell
\* as it was
C17_Witness ==
    /\ cls = "ForestFireGame"
    /\ Stepped
    /\ \E a, b, c, d \in DOMAIN pre :
           /\ pre[a] = EMPTY /\ grid[a] = TREE
           /\ pre[b] = TREE /\ grid[b] = FIRE
           /\ pre[c] = FIRE /\ grid[c] = EMPTY
           /\ pre[d] = EMPTY /\ grid[d] = EMPTY

\* the cells move_player has put out since the last step(): their overlay
\* counter is still at the value move_player gave it, which a step() lowers
JustPutOut ==
    {c \in DOMAIN extinguish_overlay : extinguish_overlay[c] = OVERLAY_SET}

\* C18: extinguish preempts the next tick.  When a step() runs after
\* move_player put out fires, the cells put out are not on fire when the
\* step() starts, burned rises by the number of the other cells on fire only,
\* and a tree that lost its draw and has no neighbour on fire other than
\* cells put out is still a tree after the step().
C18_ExtinguishPreempts ==
    [][(cls = "ForestFireGame" /\ op' = "step") =>
        /\ \A c \in JustPutOut : grid[c] = EMPTY
        /\ burned' - burned =
               Cardinality({c \in DOMAIN grid \ JustPutOut : grid[c] = FIRE})
        /\ \A t \in DOMAIN grid :
               (/\ grid[t] = TREE
                /\ t \notin lit'
                /\ \A b \in DOMAIN grid :
                       (Neighbour(t, b) /\ grid[b] = FIRE) => b \in JustPutOut)
                   => grid'[t] = TREE]_vars

\* a step() ran after the only fire was put out next to a tree: the tree is
\* still a tree and nothing was counted as burnt
C18_Witness ==
    /\ cls = "ForestFireGame"
    /\ Stepped
    /\ burned = 0
    /\ extinguished = 1
    /\ \E b, t \in DOMAIN pre :
           /\ Neighbour(t, b)
           /\ extinguish_overlay[b] = OVERLAY_SET - 1
           /\ pre[b] = EMPTY
           /\ pre[t] = TREE
           /\ grid[t] = TREE

\* C19: frame of move_player.  Across a move_player() the cells under the new
\* footprint that were on fire become empty with their overlay counter set,
\* and extinguished grows by their number; every other cell and overlay
\* counter, under the footprint or not, is as before, and so are burned,
\* time_step, the five histories and the configuration; no cell is a tree or
\* on fire after the call that was not so before it.
C19_MoveFrame ==
    [][op' = "move" =>
        LET hit == {c \in Under(player_pos') : grid[c] = FIRE}
        IN  /\ \A c \in hit :
                   /\ grid'[c] = EMPTY
                   /\ extinguish_overlay'[c] = OVERLAY_SET
            /\ \A c \in DOMAIN grid \ hit :
                   /\ grid'[c] = grid[c]
                   /\ extinguish_overlay'[c] = extinguish_overlay[c]
            /\ extinguished' - extinguished = Cardinality(hit)
            /\ burned' = burned
            /\ time_step' = time_step
            /\ Histories' = Histories
            /\ <<grid_size, p_tree, p_fire>>' = <<grid_size, p_tree, p_fire>>
            /\ \A c \in DOMAIN grid :
                   grid'[c] \in {TREE, FIRE} => grid'[c] = grid[c]]_vars

\* a move_player() after two ticks put out fires under its footprint, where
\* a cell put out earlier stayed empty, while outside the footprint a fire
\* burns on and the counter of a cell put out earlier is as it was
C19_Witness ==
    /\ Moved
    /\ time_step = 2
    /\ Len(trees_history) = 2
    /\ \E c \in Under(player_pos) : pre[c] = FIRE /\ grid[c] = EMPTY
    /\ \E c \in Under(player_pos) : pre[c] = EMPTY /\ grid[c] = EMPTY
    /\ \E c \in DOMAIN grid \ Under(player_pos) : grid[c] = FIRE
    /\ \E c \in DOMAIN grid \ Under(player_pos) :
           pre[c] = EMPTY /\ extinguish_overlay[c] = OVERLAY_SET

\* the cells that are trees or on fire
Fuel(g) == Cardinality({c \in DOMAIN g : g[c] \in {TREE, FIRE}})

NoFire(g) == \A c \in DOMAIN g : g[c] # FIRE

\* C20: fire dies out without regrowth.  With p_tree = 0 and p_fire = 0, from
\* any grid and with move_player called at any moments, repeated step() calls
\* lead to a grid with no cell on fire, and it stays so; every step() on a
\* grid with a cell on fire strictly lowers the number of cells that are
\* trees or on fire; and once no cell is on fire no operation changes the
\* grid.
C20_FireDiesOut ==
    /\ <>[]NoFire(grid)
    /\ [][/\ (op' = "step" /\ ~ NoFire(grid)) => Fuel(grid') < Fuel(grid)
          /\ NoFire(grid) => grid' = grid]_vars

\* a fire that burnt for more ticks than MaxTicks has gone out under step(),
\* leaving trees it never reached
C20_Witness ==
    /\ Stepped
    /\ nsteps > MaxTicks
    /\ ~ NoFire(pre)
    /\ NoFire(grid)
    /\ \E c \in DOMAIN grid : grid[c] = TREE

====
